---- MODULE Spec2Model ----
(***************************************************************************)
(* Model of homeassistant/components/ecobee/__init__.py: the config-entry  *)
(* lifecycle (async_setup, async_setup_entry, async_unload_entry) and the  *)
(* EcobeeData coordinator (throttled update, token refresh).               *)
(*                                                                         *)
(* Every coroutine runs on one event loop, so the code between two awaits  *)
(* is one atomic action.  The only real suspension points are the two      *)
(* executor jobs (ecobee.update, ecobee.refresh_tokens) and the gather of  *)
(* the platform unloads.  The external client and the platforms are the    *)
(* environment: their outcomes are chosen nondeterministically.            *)
(***************************************************************************)
EXTENDS Integers, Sequences, FiniteSets, TLC

VARIABLES
    config,          \* the `config` argument of async_setup; None once it has returned
    hass_data,       \* hass.data: the two keys this integration uses
    config_entries,  \* hass.config_entries.async_entries(DOMAIN): at most one entry
    import_tasks,    \* import flows created by async_setup and not yet run
    coord,           \* the EcobeeData objects alive, by heap slot
    task,            \* position of the lifecycle task and of each polling task
    unload_tasks,    \* `tasks` of async_unload_entry: state of each forward-unload
    last_fetch,      \* observation: the last ecobee.update started, per object
    upd,             \* observation: what the current update() invocation of a task did
    lc_obs,          \* observation: what the current setup/unload invocation did
    prev_update      \* observation: how long ago the unloaded coordinator last fetched

vars == <<config, hass_data, config_entries, import_tasks, coord, task,
          unload_tasks, last_fetch, upd, lc_obs, prev_update>>

----------------------------------------------------------------------------
(* Constants of the program and bounds of the model *)

MIN_TIME_BETWEEN_UPDATES == 180

\* Number of platform names in ECOBEE_PLATFORMS (const.py)
NumPlatforms == 2

\* Number of callers polling the coordinator (the entities of the platforms)
NumPollers == 1

ECOBEE_PLATFORMS == 1..NumPlatforms

\* DOMAIN of const.py (DOMAIN is a reserved word here)
ECOBEE_DOMAIN == "ecobee"

Pollers == 1..NumPollers

\* One more caller, which polls without waiting for the others' update() to end
Overlapper == NumPollers + 1

PollingTasks == Pollers \cup {Overlapper}

\* The task running async_setup_entry / async_unload_entry
LC == 0

Tasks == {LC} \cup PollingTasks

\* Heap slots: the entry's coordinator plus one a polling task may still hold
Slots == 1..(NumPollers + 3)

\* Python's None and a present value
None == <<>>

Some(x) == <<x>>

\* The clock advances by one of these amounts (seconds): a recorded instant is
\* then 0, 90, 180 or more than 180 seconds old
TickSteps == {90}

\* A clock only ever is compared with MIN_TIME_BETWEEN_UPDATES: beyond it, one value
Saturate(x) ==
    IF x > MIN_TIME_BETWEEN_UPDATES THEN MIN_TIME_BETWEEN_UPDATES + 1 ELSE x

\* utcnow() moved on by d: a recorded instant is d seconds older
Older(clock, d) == IF clock = None THEN None ELSE Some(Saturate(clock[1] + d))

----------------------------------------------------------------------------
(* Dictionaries as sets of <<key, value>> pairs *)

Keys(d) == {p[1] : p \in d}

DictGet(d, k, default) ==
    IF k \in Keys(d) THEN (CHOOSE p \in d : p[1] = k)[2] ELSE default

\* Truth value of a dict: empty is falsy
Truthy(d) == d # {}

\* The `config` arguments async_setup is started with: no ecobee block, an empty
\* block, a block with an api_key
Configs ==
    { {}, {<<ECOBEE_DOMAIN, {}>>}, {<<ECOBEE_DOMAIN, {<<"api_key", "K1">>}>>} }

\* What the external token refresh can leave in the client's config
CredPairs ==
    { [API_KEY |-> "K1", REFRESH_TOKEN |-> "R1"],
      [API_KEY |-> "K2", REFRESH_TOKEN |-> "R2"] }

\* What a data fetch can leave in ecobee.thermostats: a list of devices
ThermostatLists == { <<>>, <<"t1">> }

NewEntry == [data |-> [api_key |-> "K1", refresh_token |-> "R1"], state |-> "not_loaded"]

----------------------------------------------------------------------------
(* EcobeeData *)

FreeCoord ==
    [live |-> FALSE,
     ecobee |-> [config |-> [API_KEY |-> "", REFRESH_TOKEN |-> ""], thermostats |-> None],
     throttle |-> None]

\* EcobeeData with one throttle for all its instances: a new object starts from
\* the time the throttle noted for the coordinator before it
EcobeeDataSharedThrottle(api_key, refresh_token) ==
    [live |-> TRUE,
     ecobee |-> [config |-> [API_KEY |-> api_key, REFRESH_TOKEN |-> refresh_token],
                 thermostats |-> None],
     throttle |-> prev_update]

\* EcobeeData.__init__: the client is built from the entry's credentials; it has
\* fetched nothing and the throttle has never let a call through
EcobeeData(api_key, refresh_token) ==
    [live |-> TRUE,
     ecobee |-> [config |-> [API_KEY |-> api_key, REFRESH_TOKEN |-> refresh_token],
                 thermostats |-> None],
     throttle |-> None]

\* The entry data with the two values under each other's key
EntryDataSwapped(ecobee_config) ==
    [api_key |-> ecobee_config.REFRESH_TOKEN, refresh_token |-> ecobee_config.API_KEY]

\* The data written to the entry by refresh(): the client's current pair, rekeyed
EntryData(ecobee_config) ==
    [api_key |-> ecobee_config.API_KEY, refresh_token |-> ecobee_config.REFRESH_TOKEN]

\* Throttle: the wrapped method runs if it never ran or ran more than min_time ago
ThrottleLetsThrough(throttle) ==
    throttle = None \/ throttle[1] > MIN_TIME_BETWEEN_UPDATES

\* Throttle: the time of a call let through is noted when the call is made, before
\* the coroutine it returns has run, so whatever that coroutine's outcome
ThrottleNoted(throttle) == Some(0)

----------------------------------------------------------------------------
(* Observations *)

\* Of an update() invocation: was it made less than 180 s after the last fetch
\* started (early); the number of calls of ecobee.update and of refresh() it made,
\* how they ended, and how it ended itself
NoUpdate ==
    [early |-> FALSE, fetch |-> 0, fetch_res |-> "-", refresh |-> 0,
     refresh_ext |-> "-", refresh_res |-> "-", synced |-> TRUE, result |-> "-"]

\* Of an object: how long ago its last fetch started, which task's update() started
\* it (while that update() runs), and how it ended: "running", "ok", "error",
\* "expired", or "refresh_failed" when the refresh() after "expired" returned False
NoFetch == [ago |-> None, by |-> -1, outcome |-> "-"]

NoLifecycle ==
    [op |-> "-", result |-> "-", refresh_ext |-> "-", refresh_res |-> "-",
     synced |-> TRUE, updates |-> 0,
     thermostats |-> None, data_before |-> None, stored |-> FALSE, all_ok |-> FALSE,
     stored_first |-> FALSE,
     forward_setup |-> [p \in ECOBEE_PLATFORMS |-> 0],
     forward_unload |-> [p \in ECOBEE_PLATFORMS |-> 0]]

IdleTask == [pc |-> "idle", data |-> 0]

----------------------------------------------------------------------------
(* The state as one record, so that a handler is a composition of functions *)

Now ==
    [hass_data |-> hass_data, config_entries |-> config_entries, coord |-> coord,
     task |-> task, unload_tasks |-> unload_tasks, last_fetch |-> last_fetch, upd |-> upd,
     lc_obs |-> lc_obs, prev_update |-> prev_update]

Commit(s) ==
    /\ hass_data' = s.hass_data
    /\ config_entries' = s.config_entries
    /\ coord' = s.coord
    /\ task' = s.task
    /\ unload_tasks' = s.unload_tasks
    /\ last_fetch' = s.last_fetch
    /\ upd' = s.upd
    /\ lc_obs' = s.lc_obs
    /\ prev_update' = s.prev_update

\* Can the throttle or the device list of object i still be read?  Only through
\* hass.data (a later poll) or by the setup that built it
Reachable(s, i) == s.hass_data.ecobee = Some(i) \/ s.task[LC].data = i

Referenced(s, i) == Reachable(s, i) \/ \E t \in PollingTasks : s.task[t].data = i

\* An object nothing refers to any more is freed.  Of an object only a running
\* update() of a polling task still refers to, nothing but the client's config can
\* be read again (by refresh()): its other fields are dropped
Kept(s, i) ==
    IF Reachable(s, i) THEN s.coord[i]
    ELSE IF Referenced(s, i)
         THEN [s.coord[i] EXCEPT !.throttle = None, !.ecobee.thermostats = None]
         ELSE FreeCoord

Collect(s) ==
    [s EXCEPT !.coord = [i \in Slots |-> Kept(s, i)],
              !.last_fetch = [i \in Slots |-> IF Reachable(s, i) THEN s.last_fetch[i]
                                              ELSE NoFetch]]

Alloc(s) ==
    CHOOSE i \in Slots : ~s.coord[i].live /\ \A j \in Slots : j < i => s.coord[j].live

----------------------------------------------------------------------------
(* The callers' continuations *)

\* The state the config-entry manager gives the entry after a setup or an unload
\* that returned `result` or raised: loaded only after a setup that returned True,
\* still loaded after an unload that returned False, and out of use after an
\* unload that raised
EntryStateAfter(op, result) ==
    CASE op = "setup" -> IF result = "true" THEN "loaded" ELSE "not_loaded"
      [] op = "unload" /\ result = "true" -> "not_loaded"
      [] op = "unload" /\ result = "false" -> "loaded"
      [] OTHER -> "failed_unload"

\* async_setup_entry returns `result` ("true", "false") or raises ("raised"), and
\* the local `data` goes out of scope
SetupFinish(s, result) ==
    Collect([s EXCEPT
        !.task[LC] = [pc |-> "done", data |-> 0],
        !.prev_update = None,
        !.lc_obs.result = result,
        !.config_entries[1].state = EntryStateAfter("setup", result)])

\* The check of the discovered devices after the update
NoDevicesFound(thermostats) == thermostats = None

\* async_setup_entry creating the forward-setup tasks right after the update,
\* before the device check and the store in hass.data
SetupAfterUpdateForwardFirst(s) ==
    LET c == s.task[LC].data
        thermostats == s.coord[c].ecobee.thermostats
        seen == [s EXCEPT !.lc_obs.thermostats = thermostats]
        forwarded == [seen EXCEPT
                         !.lc_obs.forward_setup =
                             [p \in ECOBEE_PLATFORMS |-> seen.lc_obs.forward_setup[p] + 1],
                         !.lc_obs.stored_first = seen.hass_data.ecobee = Some(c)]
        stored == [forwarded EXCEPT !.hass_data.ecobee = Some(c), !.lc_obs.stored = TRUE]
    IN  IF NoDevicesFound(thermostats)
        THEN SetupFinish(forwarded, "false")
        ELSE SetupFinish(stored, "true")

\* async_setup_entry after `await data.update()`: the device check, the store in
\* hass.data and one forward-setup task per platform (stored_first: was the
\* coordinator in hass.data when the tasks were created)
SetupAfterUpdate(s) ==
    LET c == s.task[LC].data
        thermostats == s.coord[c].ecobee.thermostats
        seen == [s EXCEPT !.lc_obs.thermostats = thermostats]
        stored == [seen EXCEPT !.hass_data.ecobee = Some(c), !.lc_obs.stored = TRUE]
        forwarded == [stored EXCEPT
                         !.lc_obs.forward_setup =
                             [p \in ECOBEE_PLATFORMS |-> stored.lc_obs.forward_setup[p] + 1],
                         !.lc_obs.stored_first = stored.hass_data.ecobee = Some(c)]
    IN  IF NoDevicesFound(thermostats)
        THEN SetupFinish(seen, "false")
        ELSE SetupFinish(forwarded, "true")

\* update() of task t is over (it returned None, or raised): its caller goes on
UpdateReturned(s, t, result) ==
    LET c == s.task[t].data
        s1 == [s EXCEPT !.upd[t].result = result,
                        !.last_fetch[c].by = IF @ = t THEN -1 ELSE @]
    IN  IF t = LC
        THEN IF result = "raised" THEN SetupFinish(s1, "raised") ELSE SetupAfterUpdate(s1)
        ELSE Collect([s1 EXCEPT !.task[t] = [pc |-> "done", data |-> 0]])

----------------------------------------------------------------------------
(* EcobeeData.update and EcobeeData.refresh *)

\* update() without its Throttle decorator: every call reaches the client
CallUpdateUnthrottled(s, t) ==
    LET c == s.task[t].data
        seen == s.last_fetch[c]
        early == seen.ago # None /\ seen.ago[1] < 180
    IN  [s EXCEPT !.upd[t] = [NoUpdate EXCEPT !.early = early, !.result = "running",
                                              !.fetch = 1],
                  !.coord[c].throttle = ThrottleNoted(@),
                  !.last_fetch[c] = [ago |-> Some(0), by |-> t, outcome |-> "running"],
                  !.task[t].pc = "update_fetch"]

\* update() whose throttle notes no time when it lets a call through, so that a
\* call made while the fetch is awaited is let through as well
CallUpdateNotedLate(s, t) ==
    LET c == s.task[t].data
        seen == s.last_fetch[c]
        early == seen.ago # None /\ seen.ago[1] < 180
        s1 == [s EXCEPT !.upd[t] = [NoUpdate EXCEPT !.early = early,
                                                    !.result = "running"]]
    IN  IF ThrottleLetsThrough(s.coord[c].throttle)
        THEN [s1 EXCEPT !.last_fetch[c] = [ago |-> Some(0), by |-> t,
                                           outcome |-> "running"],
                        !.upd[t].fetch = 1,
                        !.task[t].pc = "update_fetch"]
        ELSE UpdateReturned(s1, t, "returned")

\* Task t calls data.update(): the Throttle wrapper either lets the call through,
\* noting the time and handing ecobee.update to the executor, or returns None
CallUpdate(s, t) ==
    LET c == s.task[t].data
        seen == s.last_fetch[c]
        early == seen.ago # None /\ seen.ago[1] < 180
        s1 == [s EXCEPT !.upd[t] = [NoUpdate EXCEPT !.early = early,
                                                    !.result = "running"]]
    IN  IF ThrottleLetsThrough(s.coord[c].throttle)
        THEN [s1 EXCEPT !.coord[c].throttle = ThrottleNoted(@),
                        !.last_fetch[c] = [ago |-> Some(0), by |-> t,
                                           outcome |-> "running"],
                        !.upd[t].fetch = 1,
                        !.task[t].pc = "update_fetch"]
        ELSE UpdateReturned(s1, t, "returned")

\* Task t calls data.refresh(): ecobee.refresh_tokens goes to the executor
CallRefresh(s, t, pc) == [s EXCEPT !.task[t].pc = pc]

\* refresh() with the rewrite of the entry outside the `if`: it is done after a
\* falsy result as well
RefreshResultAlways(s, t, outcome, creds) ==
    LET c == s.task[t].data
    IN  IF outcome \in {"true", "false"}
        THEN LET s1 == [s EXCEPT !.coord[c].ecobee.config = creds]
             IN  [s1 EXCEPT !.config_entries[1].data = EntryData(s1.coord[c].ecobee.config)]
        ELSE s

\* refresh() after the executor job: on a truthy result the entry is rewritten
\* with the client's pair
RefreshResult(s, t, outcome, creds) ==
    LET c == s.task[t].data
    IN  IF outcome = "true"
        THEN LET s1 == [s EXCEPT !.coord[c].ecobee.config = creds]
             IN  [s1 EXCEPT !.config_entries[1].data = EntryData(s1.coord[c].ecobee.config)]
        ELSE s

\* Does the entry hold the pair of the client of task t's coordinator?
InSync(s, t) ==
    LET c == s.task[t].data
    IN  /\ s.config_entries[1].data.api_key = s.coord[c].ecobee.config.API_KEY
        /\ s.config_entries[1].data.refresh_token = s.coord[c].ecobee.config.REFRESH_TOKEN

\* update() with the expired-token handler missing: every exception leaves it
FetchResultUncaught(s, t, outcome, thermostats) ==
    LET c == s.task[t].data
        mine == s.last_fetch[c].by = t
        s1 == [s EXCEPT !.upd[t].fetch_res = outcome,
                        !.last_fetch[c].outcome = IF mine THEN outcome ELSE @]
    IN  IF outcome = "ok"
        THEN UpdateReturned([s1 EXCEPT !.coord[c].ecobee.thermostats = thermostats],
                            t, "returned")
        ELSE UpdateReturned(s1, t, "raised")

\* update() with a handler that catches every exception, not only the expired token
FetchResultCatchAll(s, t, outcome, thermostats) ==
    LET c == s.task[t].data
        mine == s.last_fetch[c].by = t
        s1 == [s EXCEPT !.upd[t].fetch_res = outcome,
                        !.last_fetch[c].outcome = IF mine THEN outcome ELSE @]
    IN  IF outcome = "ok"
        THEN UpdateReturned([s1 EXCEPT !.coord[c].ecobee.thermostats = thermostats],
                            t, "returned")
        ELSE CallRefresh([s1 EXCEPT !.upd[t].refresh = s1.upd[t].refresh + 1],
                         t, "update_refresh")

\* update() that takes back the throttle's note when its fetch fails, so that the
\* next call is let through at once
FetchResultForgetting(s, t, outcome, thermostats) ==
    LET c == s.task[t].data
        mine == s.last_fetch[c].by = t
        s1 == [s EXCEPT !.upd[t].fetch_res = outcome,
                        !.last_fetch[c].outcome = IF mine THEN outcome ELSE @,
                        !.coord[c].throttle = IF outcome = "ok" THEN @ ELSE None]
    IN  CASE outcome = "ok" ->
               UpdateReturned([s1 EXCEPT !.coord[c].ecobee.thermostats = thermostats],
                              t, "returned")
          [] outcome = "expired" ->
               CallRefresh([s1 EXCEPT !.upd[t].refresh = s1.upd[t].refresh + 1],
                           t, "update_refresh")
          [] OTHER -> UpdateReturned(s1, t, "raised")

\* ecobee.update finished in the executor with `outcome`; update() goes on
FetchResult(s, t, outcome, thermostats) ==
    LET c == s.task[t].data
        mine == s.last_fetch[c].by = t
        s1 == [s EXCEPT !.upd[t].fetch_res = outcome,
                        !.last_fetch[c].outcome = IF mine THEN outcome ELSE @]
    IN  CASE outcome = "ok" ->
               UpdateReturned([s1 EXCEPT !.coord[c].ecobee.thermostats = thermostats],
                              t, "returned")
          [] outcome = "expired" ->
               CallRefresh([s1 EXCEPT !.upd[t].refresh = s1.upd[t].refresh + 1],
                           t, "update_refresh")
          [] OTHER -> UpdateReturned(s1, t, "raised")

\* refresh() raising on a failed token refresh instead of returning False
RefreshValueRaising(ext) == IF ext = "truthy" THEN "true" ELSE "raised"

\* async_setup_entry going on to the update whatever refresh() returned
SetupAfterRefreshUnchecked(s, outcome) ==
    IF outcome = "raised"
    THEN SetupFinish(s, outcome)
    ELSE CallUpdate([s EXCEPT !.lc_obs.updates = s.lc_obs.updates + 1], LC)

\* async_setup_entry after `await data.refresh()`: False ends the setup, True leads
\* to the update
SetupAfterRefresh(s, outcome) ==
    IF outcome = "true"
    THEN CallUpdate([s EXCEPT !.lc_obs.updates = s.lc_obs.updates + 1], LC)
    ELSE SetupFinish(s, outcome)

\* What refresh() hands its caller when ecobee.refresh_tokens ended with `ext`
\* ("truthy", "falsy", or "raised": nothing in refresh() catches an exception)
RefreshValue(ext) ==
    CASE ext = "truthy" -> "true"
      [] ext = "falsy" -> "false"
      [] OTHER -> "raised"

\* A coordinator that gives up after a failed refresh in a poll: it takes itself
\* out of hass.data
RefreshReturnedGivingUp(s, t, ext, creds) ==
    LET c == s.task[t].data
        outcome == RefreshValue(ext)
        s1 == RefreshResult(s, t, outcome, creds)
        synced == outcome = "true" => InSync(s1, t)
    IN  IF s.task[t].pc = "update_refresh"
        THEN UpdateReturned([s1 EXCEPT !.upd[t].refresh_ext = ext,
                                       !.upd[t].refresh_res = outcome,
                                       !.upd[t].synced = synced,
                                       !.hass_data.ecobee =
                                           IF outcome = "false" THEN None ELSE @],
                            t, IF outcome = "raised" THEN "raised" ELSE "returned")
        ELSE SetupAfterRefresh([s1 EXCEPT !.lc_obs.refresh_ext = ext,
                                          !.lc_obs.refresh_res = outcome,
                                          !.lc_obs.synced = synced], outcome)

\* ecobee.refresh_tokens finished in the executor with `ext`; refresh() returns
\* its boolean (or the exception passes through it) and its caller goes on:
\* update() ends whatever the boolean, async_setup_entry goes on to the update
\* only after True
RefreshReturned(s, t, ext, creds) ==
    LET c == s.task[t].data
        outcome == RefreshValue(ext)
        s1 == RefreshResult(s, t, outcome, creds)
        synced == outcome = "true" => InSync(s1, t)
    IN  IF s.task[t].pc = "update_refresh"
        THEN UpdateReturned([s1 EXCEPT !.upd[t].refresh_ext = ext,
                                       !.upd[t].refresh_res = outcome,
                                       !.upd[t].synced = synced,
                                       !.last_fetch[c].outcome =
                                           IF s.last_fetch[c].by = t /\ outcome = "false"
                                           THEN "refresh_failed" ELSE @],
                            t, IF outcome = "raised" THEN "raised" ELSE "returned")
        ELSE LET s2 == [s1 EXCEPT !.lc_obs.refresh_ext = ext,
                                  !.lc_obs.refresh_res = outcome,
                                  !.lc_obs.synced = synced]
             IN  SetupAfterRefresh(s2, outcome)

----------------------------------------------------------------------------
(* async_unload_entry *)

\* any() in the place of all()
UnloadResultAny(results) == \E p \in ECOBEE_PLATFORMS : results[p] = "true"

\* The value returned for the gathered results
UnloadResult(results) == \A p \in ECOBEE_PLATFORMS : results[p] = "true"

NoUnloadTasks == [p \in ECOBEE_PLATFORMS |-> "none"]

\* The platforms a forward-unload is requested from
UnloadTargets == ECOBEE_PLATFORMS

\* async_unload_entry reading hass.data[DOMAIN] where it should pop it
UnloadStartKeeping(s) ==
    LET s1 == [s EXCEPT !.lc_obs = [NoLifecycle EXCEPT !.op = "unload",
                                                     !.data_before = s.hass_data.ecobee]]
    IN  IF s.hass_data.ecobee = None
        THEN [s1 EXCEPT !.task[LC] = [pc |-> "done", data |-> 0],
                        !.lc_obs.result = "raised",
                        !.config_entries[1].state = EntryStateAfter("unload", "raised")]
        ELSE Collect([s1 EXCEPT
                 !.unload_tasks = [p \in ECOBEE_PLATFORMS |->
                                      IF p \in UnloadTargets THEN "pending" ELSE "none"],
                 !.lc_obs.forward_unload = [p \in ECOBEE_PLATFORMS |->
                                      IF p \in UnloadTargets THEN 1 ELSE 0],
                 !.task[LC] = [pc |-> "unload_gather", data |-> 0]])

\* async_unload_entry up to the gather: the pop (a KeyError if nothing is stored)
\* and one forward-unload per platform
UnloadStart(s) ==
    LET s1 == [s EXCEPT !.lc_obs = [NoLifecycle EXCEPT !.op = "unload",
                                                     !.data_before = s.hass_data.ecobee]]
    IN  IF s.hass_data.ecobee = None
        THEN [s1 EXCEPT !.task[LC] = [pc |-> "done", data |-> 0],
                        !.lc_obs.result = "raised",
                        !.config_entries[1].state = EntryStateAfter("unload", "raised")]
        ELSE Collect([s1 EXCEPT
                 !.hass_data.ecobee = None,
                 !.prev_update = s.last_fetch[s.hass_data.ecobee[1]].ago,
                 !.unload_tasks = [p \in ECOBEE_PLATFORMS |->
                                      IF p \in UnloadTargets THEN "pending" ELSE "none"],
                 !.lc_obs.forward_unload = [p \in ECOBEE_PLATFORMS |->
                                      IF p \in UnloadTargets THEN 1 ELSE 0],
                 !.task[LC] = [pc |-> "unload_gather", data |-> 0]])

\* The gather is over: async_unload_entry returns all() of the results
UnloadFinish(s) ==
    LET result == IF UnloadResult(s.unload_tasks) THEN "true" ELSE "false"
    IN  [s EXCEPT !.task[LC] = [pc |-> "done", data |-> 0],
                  !.lc_obs.result = result,
                  !.lc_obs.all_ok = \A p \in ECOBEE_PLATFORMS : s.unload_tasks[p] # "false",
                  !.unload_tasks = NoUnloadTasks,
                  !.config_entries[1].state = EntryStateAfter("unload", result)]

----------------------------------------------------------------------------
(* Actions *)

Init ==
    /\ config \in {Some(c) : c \in Configs}
    /\ hass_data = [ecobee_config |-> None, ecobee |-> None]
    /\ config_entries \in {<<>>, <<NewEntry>>}
    /\ import_tasks = 0
    /\ coord = [i \in Slots |-> FreeCoord]
    /\ task = [t \in Tasks |-> IdleTask]
    /\ unload_tasks = NoUnloadTasks
    /\ last_fetch = [i \in Slots |-> NoFetch]
    /\ upd = [t \in Tasks |-> NoUpdate]
    /\ lc_obs = NoLifecycle
    /\ prev_update = None

Started == config = None

\* The condition under which async_setup creates the import flow
ImportWanted(entries, ecobee_config) == entries = <<>> /\ Truthy(ecobee_config)

\* async_setup
AsyncSetup ==
    /\ config # None
    /\ LET ecobee_config == DictGet(config[1], ECOBEE_DOMAIN, {})
       IN  /\ hass_data' = [hass_data EXCEPT !.ecobee_config = Some(ecobee_config)]
           /\ import_tasks' = IF ImportWanted(config_entries, ecobee_config)
                              THEN import_tasks + 1
                              ELSE import_tasks
    /\ config' = None
    /\ UNCHANGED <<config_entries, coord, task, unload_tasks, last_fetch, upd, lc_obs,
                   prev_update>>

\* A config flow (the import flow or the user's) creates the entry
ConfigFlow ==
    /\ Started
    /\ config_entries = <<>>
    /\ config_entries' = <<NewEntry>>
    /\ import_tasks' = 0
    /\ UNCHANGED <<config, hass_data, coord, task, unload_tasks, last_fetch, upd, lc_obs,
                   prev_update>>

\* async_setup_entry up to the first suspension, inside data.refresh()
SetupEntry ==
    /\ Started
    /\ task[LC].pc = "idle"
    /\ config_entries # <<>>
    /\ config_entries[1].state = "not_loaded"
    /\ LET entry == config_entries[1]
           api_key == entry.data.api_key
           refresh_token == entry.data.refresh_token
           c == Alloc(Now)
           s1 == [Now EXCEPT !.coord[c] = EcobeeData(api_key, refresh_token),
                             !.task[LC].data = c,
                             !.lc_obs = [NoLifecycle EXCEPT
                                            !.op = "setup",
                                            !.data_before = hass_data.ecobee]]
       IN  Commit(CallRefresh(s1, LC, "setup_refresh"))
    /\ UNCHANGED <<config, import_tasks>>

\* The executor finishes ecobee.refresh_tokens for task t
RefreshTokensDone(t) ==
    /\ task[t].pc \in {"setup_refresh", "update_refresh"}
    /\ \E ext \in {"truthy", "falsy", "raised"} :
       \E creds \in IF ext = "truthy" THEN CredPairs
                    ELSE {coord[task[t].data].ecobee.config} :
           Commit(RefreshReturned(Now, t, ext, creds))
    /\ UNCHANGED <<config, import_tasks>>

\* The executor finishes ecobee.update for task t
EcobeeUpdateDone(t) ==
    /\ task[t].pc = "update_fetch"
    /\ \E outcome \in {"ok", "expired", "error"} :
       \E thermostats \in IF outcome = "ok"
                          THEN {coord[task[t].data].ecobee.thermostats}
                               \cup {Some(l) : l \in ThermostatLists}
                          ELSE {coord[task[t].data].ecobee.thermostats} :
           Commit(FetchResult(Now, t, outcome, thermostats))
    /\ UNCHANGED <<config, import_tasks>>

\* A platform entity polls: data.update() on the stored coordinator
Poll(p) ==
    /\ task[p].pc = "idle"
    /\ hass_data.ecobee # None
    /\ Commit(CallUpdate([Now EXCEPT !.task[p].data = hass_data.ecobee[1]], p))
    /\ UNCHANGED <<config, import_tasks>>

\* async_unload_entry up to the gather
UnloadEntry ==
    /\ task[LC].pc = "idle"
    /\ config_entries # <<>>
    /\ config_entries[1].state = "loaded"
    /\ Commit(UnloadStart(Now))
    /\ UNCHANGED <<config, import_tasks>>

\* One platform's forward-unload reports its result
ForwardUnloadDone(p) ==
    /\ unload_tasks[p] = "pending"
    /\ \E ok \in {"true", "false"} : unload_tasks' = [unload_tasks EXCEPT ![p] = ok]
    /\ UNCHANGED <<config, hass_data, config_entries, import_tasks, coord, task,
                   last_fetch, upd, lc_obs, prev_update>>

\* All gathered forward-unloads are done: async_unload_entry returns
UnloadGathered ==
    /\ task[LC].pc = "unload_gather"
    /\ \A p \in ECOBEE_PLATFORMS : unload_tasks[p] \in {"none", "true", "false"}
    /\ Commit(UnloadFinish(Now))
    /\ UNCHANGED <<config, import_tasks>>

\* The caller of task t has taken the outcome; the task is ready for its next call
Resume(t) ==
    /\ task[t].pc = "done"
    /\ task' = [task EXCEPT ![t] = IdleTask]
    /\ upd' = [upd EXCEPT ![t] = NoUpdate]
    /\ lc_obs' = IF t = LC THEN NoLifecycle ELSE lc_obs
    /\ UNCHANGED <<config, hass_data, config_entries, import_tasks, coord,
                   unload_tasks, last_fetch, prev_update>>

\* Time passes
Tick(d) ==
    /\ coord' = [i \in Slots |-> [coord[i] EXCEPT !.throttle = Older(coord[i].throttle, d)]]
    /\ last_fetch' = [i \in Slots |-> [last_fetch[i] EXCEPT !.ago = Older(@, d)]]
    /\ prev_update' = Older(prev_update, d)
    /\ UNCHANGED <<config, hass_data, config_entries, import_tasks, task,
                   unload_tasks, upd, lc_obs>>

Next ==
    \/ AsyncSetup
    \/ ConfigFlow
    \/ SetupEntry
    \/ \E t \in Tasks : RefreshTokensDone(t)
    \/ \E t \in Tasks : EcobeeUpdateDone(t)
    \/ \E p \in Pollers : Poll(p)
    \/ UnloadEntry
    \/ \E p \in ECOBEE_PLATFORMS : ForwardUnloadDone(p)
    \/ UnloadGathered
    \/ \E t \in Tasks : Resume(t)
    \/ \E d \in TickSteps : Tick(d)

Spec == Init /\ [][Next]_vars

\* The program with one more polling caller: update() invocations on one
\* coordinator overlap
OverlapNext ==
    \/ Next
    \/ Poll(Overlapper)

OverlapSpec == Init /\ [][OverlapNext]_vars

\* The scheduling the claims about repeated polls assume: time passes, a finished
\* call is taken by its caller, and the platforms keep polling
FairSpec ==
    /\ Spec
    /\ WF_vars(\E d \in TickSteps : Tick(d))
    /\ WF_vars(\E t \in Tasks : Resume(t))
    /\ WF_vars(\E p \in Pollers : Poll(p))

----------------------------------------------------------------------------
(* Properties *)

TypeOK ==
    /\ import_tasks \in 0..1
    /\ \A t \in Tasks : task[t].pc \in {"idle", "setup_refresh", "update_fetch",
                                        "update_refresh", "unload_gather", "done"}
    /\ \A t \in Tasks : task[t].pc \in {"setup_refresh", "update_fetch", "update_refresh"}
                            => task[t].data \in Slots /\ coord[task[t].data].live

\* The coordinator stored in hass.data, as a set (empty when the key is absent)
Stored == {i \in Slots : hass_data.ecobee = Some(i)}

\* C1: an update() invoked less than 180 seconds after an update() of the same
\* coordinator that reached the external client is a silent no-op: it makes no call
\* of ecobee.update, none of refresh(), and returns without raising
C1_SecondUpdateIsNoOp ==
    \A t \in Tasks :
        upd[t].early => upd[t].fetch = 0 /\ upd[t].refresh = 0 /\ upd[t].result = "returned"

\* C1 witness: a poll was throttled less than 180 s after a fetch that ended in an
\* error other than the expired token
C1_Witness ==
    \E p \in Pollers : \E c \in Stored :
        /\ task[p].pc = "done"
        /\ upd[p].early
        /\ last_fetch[c].outcome = "error"
        /\ last_fetch[c].ago = Some(90)

\* C2: when the fetch of an update() raised the expired-token error, that update()
\* has called refresh() exactly once, and once refresh() has returned (True or
\* False) the update() has returned without raising
C2_ExpiredRefreshesOnce ==
    \A t \in Tasks :
        upd[t].fetch_res = "expired" =>
            /\ upd[t].refresh = 1
            /\ upd[t].refresh_res \in {"true", "false"} => upd[t].result = "returned"
            /\ upd[t].refresh_res = "-" => upd[t].result = "running"

\* C2 witness: a poll hit the expired token, its refresh() returned False, and the
\* update() returned
C2_Witness ==
    \E p \in Pollers :
        /\ upd[p].fetch_res = "expired"
        /\ upd[p].refresh_res = "false"
        /\ upd[p].result = "returned"

\* C3: whenever refresh() has returned True, the entry held, at that moment, the
\* api_key and refresh_token of the client of the coordinator that was refreshed
C3_RefreshSyncsEntry ==
    /\ \A t \in Tasks : upd[t].refresh_res = "true" => upd[t].synced
    /\ lc_obs.refresh_res = "true" => lc_obs.synced

\* C3 witness: a poll's refresh() returned True after the client had moved to
\* {K2, R2}, and the entry holds {K2, R2}
C3_Witness ==
    \E p \in Pollers :
        /\ upd[p].refresh_res = "true"
        /\ task[p].pc = "done"
        /\ config_entries[1].data = [api_key |-> "K2", refresh_token |-> "R2"]

\* C4: when the refresh() of a setup returned False, the setup returns False, stores
\* nothing in hass.data (the key is as it was), calls no update() and creates no
\* forward-setup task
C4_SetupFailsOnRefreshFailure ==
    (lc_obs.op = "setup" /\ lc_obs.refresh_res = "false") =>
        /\ lc_obs.result = "false"
        /\ ~lc_obs.stored
        /\ hass_data.ecobee = lc_obs.data_before
        /\ lc_obs.updates = 0
        /\ upd[LC] = NoUpdate
        /\ \A p \in ECOBEE_PLATFORMS : lc_obs.forward_setup[p] = 0

\* C4 witness: a setup has ended after its refresh() returned False
C4_Witness ==
    /\ task[LC].pc = "done"
    /\ lc_obs.op = "setup"
    /\ lc_obs.refresh_ext = "falsy"
    /\ lc_obs.refresh_res = "false"

\* The setup has ended after a successful refresh and an update that returned
SetupPastUpdate ==
    /\ task[LC].pc = "done"
    /\ lc_obs.op = "setup"
    /\ lc_obs.refresh_res = "true"
    /\ upd[LC].result = "returned"

\* C5 (as claimed): a setup that finds ecobee.thermostats None or empty after the
\* refresh and the update returns False, stores nothing and forwards to no platform
C5_NoDevicesFailsSetup ==
    (SetupPastUpdate /\ lc_obs.thermostats \in {None, Some(<<>>)}) =>
        /\ lc_obs.result = "false"
        /\ ~lc_obs.stored
        /\ \A p \in ECOBEE_PLATFORMS : lc_obs.forward_setup[p] = 0

\* C6: an unload that returns, returns True exactly when no platform's
\* forward-unload reported failure, and has requested the forward-unload exactly
\* once from every platform
C6_UnloadAllOrNothing ==
    (lc_obs.op = "unload" /\ lc_obs.result \in {"true", "false"}) =>
        /\ lc_obs.result = "true" <=> lc_obs.all_ok
        /\ \A p \in ECOBEE_PLATFORMS : lc_obs.forward_unload[p] = 1

\* C6 witness: an unload returned False
C6_Witness ==
    /\ task[LC].pc = "done"
    /\ lc_obs.op = "unload"
    /\ lc_obs.result = "false"
    /\ ~lc_obs.all_ok

\* C7 (as claimed): refresh() never raises, whatever ecobee.refresh_tokens does
C7_RefreshNeverRaises ==
    /\ \A t \in Tasks : upd[t].refresh_res # "raised"
    /\ lc_obs.refresh_res # "raised"

\* How refresh() must end for the way ecobee.refresh_tokens ended
RefreshEndsAs(ext, res) ==
    /\ ext = "truthy" => res = "true"
    /\ ext = "falsy" => res = "false"
    /\ res = "raised" => ext = "raised"

\* C7 (amended): refresh() returns True or False whenever ecobee.refresh_tokens
\* returns (True for a truthy result, False for a falsy one) and raises only when
\* ecobee.refresh_tokens itself raised
C7_RefreshRaisesOnlyWithClient ==
    /\ \A t \in Tasks : RefreshEndsAs(upd[t].refresh_ext, upd[t].refresh_res)
    /\ RefreshEndsAs(lc_obs.refresh_ext, lc_obs.refresh_res)

\* C7 witness: the token refresh of a setup returned a falsy value and refresh()
\* returned False
C7_Witness ==
    /\ lc_obs.refresh_ext = "falsy"
    /\ lc_obs.refresh_res = "false"
    /\ lc_obs.result = "false"

\* C8: the step in which the fetch of an update() ends in an error other than the
\* expired token ends that update() by raising, with no call of refresh(), and
\* leaves the entry's data as it was
C8_OtherErrorPropagates ==
    [][\A t \in Tasks :
          (task[t].pc = "update_fetch" /\ upd'[t].fetch_res = "error") =>
              /\ upd'[t].result = "raised"
              /\ upd'[t].refresh = 0
              /\ upd'[t].refresh_res = "-"
              /\ config_entries'[1].data = config_entries[1].data]_vars

\* C8 witness: a poll's update() raised after its fetch failed with another error
C8_Witness ==
    \E p \in Pollers :
        /\ task[p].pc = "done"
        /\ upd[p].fetch_res = "error"
        /\ upd[p].result = "raised"

\* The last fetch of the stored coordinator hit the expired token and the refresh()
\* that followed returned False
RefreshFailedInPoll == \E c \in Stored : last_fetch[c].outcome = "refresh_failed"

\* C9: a poll whose refresh() returned False returns without raising and leaves the
\* coordinator stored; with polls arriving and time passing, a later update() of
\* that coordinator starts a fetch again (unless the entry is unloaded first), and
\* every fetch that hits the expired token is followed by a call of refresh()
C9_PollSurvivesRefreshFailure ==
    /\ [](\A p \in Pollers :
             upd[p].refresh_ext = "falsy" =>
                 upd[p].result = "returned" /\ upd[p].refresh_res = "false")
    /\ [][\A p \in Pollers :
             (task[p].pc = "update_refresh" /\ upd'[p].refresh_ext = "falsy") =>
                 hass_data' = hass_data]_vars
    /\ (RefreshFailedInPoll ~> ~RefreshFailedInPoll)
    /\ [](\A t \in Tasks : upd[t].fetch_res = "expired" => upd[t].refresh = 1)

\* C9 witness: a poll has returned after its refresh() returned False, and the
\* coordinator it polled is still the stored one
C9_Witness ==
    \E p \in Pollers :
        /\ task[p].pc = "done"
        /\ upd[p].fetch_res = "expired"
        /\ upd[p].refresh_ext = "falsy"
        /\ upd[p].result = "returned"
        /\ RefreshFailedInPoll

\* C10 (as claimed): async_setup creates the import flow exactly when there is no
\* entry and the configuration holds the ecobee block, empty or not
C10_ImportOnBlockPresent ==
    [][(config # None /\ config' = None) =>
          import_tasks' = import_tasks +
              (IF config_entries = <<>> /\ ECOBEE_DOMAIN \in Keys(config[1])
               THEN 1 ELSE 0)]_vars

\* C11: under every interleaving of overlapping update() invocations, a call of
\* ecobee.update on a coordinator starts only if no call of ecobee.update on that
\* coordinator started in the 180 seconds before
C11_OverlapFetchOncePerInterval ==
    [][\A t \in Tasks :
          (task[t].pc # "update_fetch" /\ task'[t].pc = "update_fetch") =>
              LET c == task'[t].data
              IN  last_fetch[c].ago = None \/ last_fetch[c].ago[1] > 180]_vars

\* C11 witness: an update() was throttled while another task's update() on the same
\* coordinator was still awaiting ecobee.update
C11_Witness ==
    \E t \in PollingTasks : \E u \in PollingTasks : \E c \in Stored :
        /\ t # u
        /\ task[u].pc = "update_fetch"
        /\ task[u].data = c
        /\ last_fetch[c].by = u
        /\ task[t].pc = "done"
        /\ upd[t].early
        /\ upd[t].fetch = 0

\* A polling task's call of update() in this step is short-circuited by the throttle
Throttled(t) == task[t].pc = "idle" /\ task'[t].pc = "done"

\* A polling task's call of update() in this step starts ecobee.update
LetThrough(t) == task[t].pc = "idle" /\ task'[t].pc = "update_fetch"

C13_StoreThenForwardEach ==
    /\ (lc_obs.op = "setup" /\ lc_obs.result = "true") =>
           /\ lc_obs.stored
           /\ lc_obs.stored_first
           /\ \A p \in ECOBEE_PLATFORMS : lc_obs.forward_setup[p] = 1
    /\ (lc_obs.op = "setup" /\ lc_obs.result \in {"false", "raised"}) =>
           \A p \in ECOBEE_PLATFORMS : lc_obs.forward_setup[p] = 0

\* C13 witness: a setup that found a device has returned True, with the coordinator
\* in hass.data and one forward-setup task per platform
C13_Witness ==
    /\ task[LC].pc = "done"
    /\ lc_obs.op = "setup"
    /\ lc_obs.result = "true"
    /\ lc_obs.thermostats = Some(<<"t1">>)
    /\ hass_data.ecobee # None
    /\ \A p \in ECOBEE_PLATFORMS : lc_obs.forward_setup[p] = 1

\* C14: hass.data holds a coordinator exactly when the last setup or unload of the
\* entry was a setup that has returned True: nothing is stored before the first
\* setup; while and after a setup, the coordinator is stored exactly if the setup
\* has returned True; from the start of an unload on nothing is stored, whatever
\* the unload returns; a forward-unload is requested only with the coordinator
\* removed (none when the removal raised); and no other step changes the key
C14_StoredIffSetupSucceeded ==
    /\ [](config # None => hass_data.ecobee = None)
    /\ [](lc_obs.op = "setup" => (hass_data.ecobee # None <=> lc_obs.result = "true"))
    /\ [](lc_obs.op = "unload" => hass_data.ecobee = None)
    /\ [](\A p \in ECOBEE_PLATFORMS :
             unload_tasks[p] # "none" => hass_data.ecobee = None)
    /\ []((lc_obs.op = "unload" /\ lc_obs.result = "raised") =>
             \A p \in ECOBEE_PLATFORMS : lc_obs.forward_unload[p] = 0)
    /\ [][lc_obs'.op = "-" => hass_data'.ecobee = hass_data.ecobee]_vars

\* C14 witness: an unload of a stored coordinator has returned False and hass.data
\* holds no coordinator
C14_Witness ==
    /\ task[LC].pc = "done"
    /\ lc_obs.op = "unload"
    /\ lc_obs.data_before # None
    /\ lc_obs.result = "false"
    /\ hass_data.ecobee = None
    /\ config_entries[1].state = "loaded"

\* C15: the step in which ecobee.refresh_tokens reports failure makes refresh()
\* return False and leaves the entry's data as it was; and a step that changes the
\* data of the entry is the return of a refresh() with True: no other step (a
\* fetch that ends, a throttled update(), a setup or unload step, time passing)
\* changes it
C15_EntryRewrittenOnlyByRefreshTrue ==
    [][/\ \A t \in Tasks :
             LET seen == IF task[t].pc = "setup_refresh" THEN lc_obs' ELSE upd'[t]
             IN  (task[t].pc \in {"setup_refresh", "update_refresh"}
                      /\ seen.refresh_ext = "falsy") =>
                     /\ seen.refresh_res = "false"
                     /\ config_entries'[1].data = config_entries[1].data
       /\ (config_entries # <<>> /\ config_entries'[1].data # config_entries[1].data) =>
             \E t \in Tasks :
                 LET seen == IF task[t].pc = "setup_refresh" THEN lc_obs' ELSE upd'[t]
                 IN  /\ task[t].pc \in {"setup_refresh", "update_refresh"}
                     /\ seen.refresh_ext = "truthy"
                     /\ seen.refresh_res = "true"]_vars

\* C15 witness: after a refresh() had rewritten the entry with {K2, R2}, the
\* refresh() of a poll returned False and the entry still holds {K2, R2}
C15_Witness ==
    \E p \in Pollers :
        /\ task[p].pc = "done"
        /\ upd[p].refresh_ext = "falsy"
        /\ upd[p].refresh_res = "false"
        /\ config_entries[1].data = [api_key |-> "K2", refresh_token |-> "R2"]

\* C16: the update() a setup calls always starts ecobee.update: it is not
\* short-circuited, however recently the coordinator of the entry's previous setup
\* fetched
C16_SetupUpdateNeverThrottled ==
    (lc_obs.op = "setup" /\ lc_obs.updates > 0) =>
        /\ lc_obs.updates = 1
        /\ upd[LC].fetch = 1
        /\ ~upd[LC].early

\* C16 witness: the update() of a setup is awaiting ecobee.update, started 90
\* seconds after the last fetch of the coordinator that was unloaded before
C16_Witness ==
    /\ task[LC].pc = "update_fetch"
    /\ lc_obs.op = "setup"
    /\ upd[LC].fetch = 1
    /\ last_fetch[task[LC].data].ago = Some(0)
    /\ prev_update = Some(90)

====
